---- MODULE Spec2Model ----
(***************************************************************************)
(* Model of src/main.py: the news pipeline main() and get_ai_summary().    *)
(*                                                                         *)
(* Strings are sequences of symbol codes:                                  *)
(*    0        the space character                                         *)
(*    1..3     the lower-case letters a, b, c                              *)
(*    6, 7     the digits 0 and 7                                          *)
(*    11..13   the upper-case letters A, B, C                              *)
(*    20       a punctuation mark ("!", "[", "]")                          *)
(*    21       the apostrophe                                              *)
(*    30..39   whole fixed phrases of the program, one code per phrase     *)
(*    40       a "[" that no "]" closes, in a URL                          *)
(*    41..59   URL parts: 41,42 host names, 51,52 paths                    *)
(*    60,61    time stamps                                                 *)
(* The empty string is <<>>.  Python's None is the value None below, which *)
(* is no string (code -1 is no symbol); a dictionary key that is absent    *)
(* is Missing; the JSON list ["c"] where a string is expected is           *)
(* ListValue.                                                              *)
(***************************************************************************)
EXTENDS Integers, Sequences, FiniteSets, TLC

None == <<-1>>
Missing == <<-2>>
ListValue == <<-4>>
Space == 0
EmptyStr == <<>>

\* Bounds of the model.
MaxPublished == 2
MaxRuns == 2
MaxInitRows == 1

(***************************************************************************)
(* Strings and the similarity score fuzz.token_sort_ratio.                 *)
(***************************************************************************)

\* Variant of Truthy: only None counts as missing.
Truthy_NoneOnly(v) == v # None

\* Python truthiness of an optional string: None and "" are falsy.
Truthy(v) == v # None /\ v # EmptyStr

IsUpper(c) == c \in 11..13
IsDigit(c) == c \in 6..7
IsAlnum(c) == c \in 1..3 \/ c \in 11..13 \/ IsDigit(c)

\* The place of a character in Python's order of characters: digits come
\* before letters.
CharOrd(c) == IF IsDigit(c) THEN c - 10 ELSE c

\* str.lower() on one character.
Lower(c) == IF IsUpper(c) THEN c - 10 ELSE c

RECURSIVE LStrip(_)
LStrip(s) == IF s # <<>> /\ Head(s) = Space THEN LStrip(Tail(s)) ELSE s

RECURSIVE RStrip(_)
RStrip(s) ==
    IF s # <<>> /\ s[Len(s)] = Space THEN RStrip(SubSeq(s, 1, Len(s) - 1)) ELSE s

\* str.strip()
Strip(s) == LStrip(RStrip(s))

\* thefuzz utils.full_process: lower-case, every non-alphanumeric character
\* becomes a space, then strip.
full_process(s) ==
    Strip([k \in 1..Len(s) |-> IF IsAlnum(s[k]) THEN Lower(s[k]) ELSE Space])

\* str.split(): the maximal runs of non-space characters, in order.
RECURSIVE Split(_)
Split(s) ==
    LET t == LStrip(s)
        RECURSIVE WordLen(_)
        WordLen(k) == IF k < Len(t) /\ t[k + 1] # Space THEN WordLen(k + 1) ELSE k
    IN IF t = <<>> THEN <<>>
       ELSE LET n == WordLen(0)
            IN <<SubSeq(t, 1, n)>> \o Split(SubSeq(t, n + 1, Len(t)))

\* Lexicographic order of strings (Python's str comparison).
RECURSIVE StrLeq(_, _)
StrLeq(s, t) ==
    IF s = <<>> THEN TRUE
    ELSE IF t = <<>> THEN FALSE
    ELSE IF CharOrd(Head(s)) < CharOrd(Head(t)) THEN TRUE
    ELSE IF CharOrd(Head(s)) > CharOrd(Head(t)) THEN FALSE
    ELSE StrLeq(Tail(s), Tail(t))

\* sorted(): insertion sort of a list of tokens.
RECURSIVE Insert(_, _)
Insert(w, ws) ==
    IF ws = <<>> THEN <<w>>
    ELSE IF StrLeq(w, Head(ws)) THEN <<w>> \o ws
    ELSE <<Head(ws)>> \o Insert(w, Tail(ws))

RECURSIVE Sorted(_)
Sorted(ws) == IF ws = <<>> THEN <<>> ELSE Insert(Head(ws), Sorted(Tail(ws)))

\* " ".join(tokens)
RECURSIVE Join(_)
Join(ws) ==
    IF ws = <<>> THEN <<>>
    ELSE IF Len(ws) = 1 THEN Head(ws)
    ELSE Head(ws) \o <<Space>> \o Join(Tail(ws))

\* Length of a longest common subsequence.
RECURSIVE LCS(_, _)
LCS(s, t) ==
    IF s = <<>> \/ t = <<>> THEN 0
    ELSE IF Head(s) = Head(t) THEN 1 + LCS(Tail(s), Tail(t))
    ELSE LET x == LCS(Tail(s), t)
             y == LCS(s, Tail(t))
         IN IF x >= y THEN x ELSE y

\* int(round(100 * num / den)) with Python's round-half-to-even.
RoundPercent(num, den) ==
    LET q == (100 * num) \div den
        r == (100 * num) % den
    IN IF 2 * r > den THEN q + 1
       ELSE IF 2 * r < den THEN q
       ELSE IF q % 2 = 0 THEN q ELSE q + 1

\* The normalized Indel similarity, 0..100; two empty strings score 100.
ratio(s, t) ==
    IF Len(s) + Len(t) = 0 THEN 100
    ELSE RoundPercent(2 * LCS(s, t), Len(s) + Len(t))

\* str(v): a string is itself, the list ["c"] reads "['c']".
Str(v) == IF v = ListValue THEN <<20, 21, 3, 21, 20>> ELSE v

\* fuzz.token_sort_ratio(s1, s2): 0 when either argument is None; any other
\* argument is turned into a string first.
token_sort_ratio(s1, s2) ==
    IF s1 = None \/ s2 = None THEN 0
    ELSE ratio(Join(Sorted(Split(full_process(Str(s1))))),
               Join(Sorted(Split(full_process(Str(s2))))))

(***************************************************************************)
(* Fixed phrases, articles and rows.                                       *)
(***************************************************************************)

SummaryNotAvailable == <<30>>    \* "Summary not available."
AISummaryFailed == <<31>>        \* "AI summary failed."
Published == <<32>>              \* "Published"
FaviconPrefix == <<33>>          \* "https://www.google.com/s2/favicons?domain="
FaviconSuffix == <<37>>          \* "&sz=64"
Sentence == <<34>>               \* a sentence written by the summarization backend
SourceId == <<35>>               \* a source_id
ApiKey == <<36>>                 \* a non-empty OPENAI_API_KEY
Descr == <<38>>                  \* a non-empty description
PubDate == <<60>>                \* a pubDate of the feed
NowStamp == <<61>>               \* datetime.now(timezone.utc).isoformat()

\* Links "scheme://host/path", written <<host, path>>.
L1 == <<41, 51>>
L2 == <<41, 52>>
L3 == <<42, 51>>

\* A link "http://[": urlparse raises ValueError (Invalid IPv6 URL).
LBad == <<40>>

\* Whether urlparse(link) raises.
UrlRejected(link) == \E j \in 1..Len(link) : link[j] = 40

\* Whether a value can be a member of a Python set: a list cannot.
Hashable(v) == v # ListValue

\* urlparse(link).netloc
netloc(link) == IF Len(link) >= 1 /\ link[1] \in 41..49 THEN <<link[1]>> ELSE <<>>

\* Titles.
T_ab == <<1, 0, 2>>              \* "a b"
T_BA == <<12, 0, 11, 20>>        \* "B A!"
T_a == <<1>>                     \* "a"
T_c == <<3>>                     \* "c"
T_007 == <<6, 6, 7>>             \* "007"
T_qc == <<21, 3>>                \* "'c"

\* An article of the feed, a JSON object, each field as article.get(field)
\* returns it.
Art(link, title, description, pubDate) ==
    [kind |-> "object", link |-> link, title |-> title, description |-> description,
     image_url |-> None, source_id |-> SourceId, pubDate |-> pubDate]

\* An item of the results that is no JSON object (null, a string): it has no
\* method get.
NotAnObject ==
    [kind |-> "null", link |-> None, title |-> None, description |-> None,
     image_url |-> None, source_id |-> None, pubDate |-> Missing]

\* The articles the news API can publish.
Articles ==
    { Art(L1, T_ab, Descr, PubDate),
      Art(L2, T_BA, Descr, PubDate),
      Art(L1, T_c, None, Missing),
      Art(L3, T_a, Descr, PubDate),
      Art(None, T_c, Descr, PubDate),
      Art(EmptyStr, T_a, Descr, PubDate),
      Art(L2, None, Descr, PubDate),
      Art(L3, None, None, PubDate),
      Art(L2, EmptyStr, Descr, PubDate),
      Art(L3, EmptyStr, EmptyStr, PubDate),
      Art(LBad, T_c, Descr, PubDate),
      Art(ListValue, T_c, Descr, PubDate),
      Art(L2, ListValue, Descr, PubDate),
      Art(L3, T_007, None, PubDate),
      Art(L2, T_qc, None, PubDate),
      NotAnObject }

\* Outcomes of the chat-completion call: an error, or the content returned.
BackendError == <<-3>>
Replies == { BackendError, Sentence, <<Space>> \o Sentence \o <<Space>> }

\* get_ai_summary(article_title, article_description), with the value of
\* openai.api_key and the outcome of the backend call as inputs.
get_ai_summary(article_title, article_description, api_key, reply) ==
    IF ~(Truthy(article_description) /\ Truthy(api_key)) THEN SummaryNotAvailable
    ELSE IF reply = BackendError THEN AISummaryFailed
    ELSE Strip(reply)

\* Whether get_ai_summary reaches openai.chat.completions.create.
CallsBackend(article_description, api_key) ==
    Truthy(article_description) /\ Truthy(api_key)

\* The row main() builds for an accepted article (columns A..I).
BuildRow(article, ai_summary) ==
    << EmptyStr,
       article.title,
       ai_summary,
       article.image_url,
       article.source_id,
       article.link,
       FaviconPrefix \o netloc(article.link) \o FaviconSuffix,
       IF article.pubDate = Missing THEN NowStamp ELSE article.pubDate,
       Published >>

TitleCol == 2
LinkCol == 6
SummaryCol == 3

(***************************************************************************)
(* The Ledger: a worksheet, a sequence of rows of cell texts.              *)
(***************************************************************************)

RECURSIVE DropZeros(_)
DropZeros(s) == IF Len(s) > 1 /\ Head(s) = 6 THEN DropZeros(Tail(s)) ELSE s

\* What a value appended with value_input_option='USER_ENTERED' reads back
\* as: an absent value is an empty cell, a text that starts with an
\* apostrophe is the text after it, a text of digits is a number and shows
\* without leading zeros, any other text of the model is kept.
CellText(v) ==
    IF v = None THEN EmptyStr
    ELSE IF v # <<>> /\ Head(v) = 21 THEN Tail(v)
    ELSE IF v # <<>> /\ (\A j \in 1..Len(v) : IsDigit(v[j])) THEN DropZeros(v)
    ELSE v

StoredRow(row) == [c \in 1..Len(row) |-> CellText(row[c])]

\* worksheet.append_rows(rows)
append_rows(sheet, rows) == sheet \o [j \in 1..Len(rows) |-> StoredRow(rows[j])]

\* The last row of the sheet whose cell in the column is not empty, or 0.
LastFilled(sheet, col) ==
    LET filled == { j \in 1..Len(sheet) : sheet[j][col] # EmptyStr }
    IN IF filled = {} THEN 0 ELSE CHOOSE j \in filled : \A h \in filled : h <= j

\* worksheet.col_values(col): the cells of the column down to the last one
\* that is not empty.
col_values(sheet, col) == [j \in 1..LastFilled(sheet, col) |-> sheet[j][col]]

\* set(list)
ToSet(list) == { list[j] : j \in 1..Len(list) }

\* Rows an earlier run may have left in the Ledger.
InitRows ==
    { StoredRow(BuildRow(Art(L2, T_BA, Descr, PubDate), Sentence)),
      StoredRow(BuildRow(Art(L3, None, Descr, PubDate), AISummaryFailed)) }

DistinctLinks(sheet) ==
    \A p, q \in 1..Len(sheet) : p # q => sheet[p][LinkCol] # sheet[q][LinkCol]

RECURSIVE SeqsUpTo(_, _)
SeqsUpTo(S, n) ==
    IF n = 0 THEN { <<>> }
    ELSE LET shorter == SeqsUpTo(S, n - 1)
         IN shorter \cup { Append(s, x) : s \in shorter, x \in S }

InitLedgers == { sh \in SeqsUpTo(InitRows, MaxInitRows) : DistinctLinks(sh) }

(***************************************************************************)
(* The duplicate filter of main().                                         *)
(***************************************************************************)

SIMILARITY_THRESHOLD == 50

\* The inner loop over existing_titles: some known title scores above the
\* threshold.
is_semantically_duplicate(title, titles) ==
    \E existing_title \in titles :
        token_sort_ratio(title, existing_title) > SIMILARITY_THRESHOLD

\* Variant of reversed: the list in its own order.
reversed_Identity(list) == list

\* reversed(list)
reversed(list) == [j \in 1..Len(list) |-> list[Len(list) + 1 - j]]

\* The articles with their positions in the fetched list.
Enumerate(list) == [j \in 1..Len(list) |-> [src |-> j, art |-> list[j]]]

\* Variant of Verdict: the test "source_link not in existing_links" is dropped.
Verdict_NoLinkTest(article, links, titles) ==
    IF article.link \in { None, EmptyStr } THEN "no_link"
    ELSE IF \E t \in titles : token_sort_ratio(article.title, t) > 50 THEN "similar"
    ELSE "accepted"

\* The branch main() takes for one article.
Verdict(article, links, titles) ==
    IF ~Truthy(article.link) THEN "no_link"
    ELSE IF article.link \in links THEN "dup_link"
    ELSE IF is_semantically_duplicate(article.title, titles) THEN "similar"
    ELSE "accepted"

\* Variant of add_link: the accepted link is not remembered.
add_link_Forgotten(links, source_link) == links

\* existing_links.add(source_link)
add_link(links, source_link) == links \cup { source_link }

\* existing_titles.add(title)
add_title(titles, title) == titles \cup { title }

(***************************************************************************)
(* State.                                                                  *)
(***************************************************************************)
VARIABLES
    ledger,           \* the worksheet: rows of cell texts
    feed,             \* what the news API currently answers, newest first
    pc,               \* position of main(): idle, fetch, dedup, loop,
                      \*   done (ran to its end), returned (early return),
                      \*   crashed (an exception left main())
    runs,             \* number of invocations of main() so far
    articles,         \* the fetched list of this run
    k,                \* number of articles the for loop has processed
    existing_links,   \* set of known links
    existing_titles,  \* set of known titles
    rows_to_add,      \* rows built in this run
    ledger0,          \* history: the worksheet when this run started
    fault,            \* history: the step that failed in this run: none,
                      \*   auth, fetch (a RequestException), decode (another
                      \*   exception of lines 64-73), read, item (line 81),
                      \*   link (line 84), urlparse (line 95), title
                      \*   (line 101), append
    trace,            \* history: one entry per article that the loop rejected
                      \*   or built a row for
    backend_calls,    \* history: calls of the summarization backend in this run
    prev              \* history: the fetched list and the end of the last run

vars == << ledger, feed, pc, runs, articles, k, existing_links,
           existing_titles, rows_to_add, ledger0, fault, trace, backend_calls,
           prev >>

Stopped == { "idle", "done", "returned", "crashed" }

Init ==
    /\ ledger \in InitLedgers
    /\ feed = <<>>
    /\ pc = "idle"
    /\ runs = 0
    /\ articles = <<>>
    /\ k = 0
    /\ existing_links = {}
    /\ existing_titles = {}
    /\ rows_to_add = <<>>
    /\ ledger0 = ledger
    /\ fault = "none"
    /\ trace = <<>>
    /\ backend_calls = 0
    /\ prev = [articles |-> <<>>, pc |-> "idle"]

(***************************************************************************)
(* The environment: the news API lists a further article, newest first.    *)
(***************************************************************************)
Publish ==
    /\ pc \in Stopped
    /\ runs < MaxRuns
    /\ Len(feed) < MaxPublished
    /\ \E a \in Articles : feed' = <<a>> \o feed
    /\ UNCHANGED << ledger, pc, runs, articles, k, existing_links,
                    existing_titles, rows_to_add, ledger0, fault, trace,
                    backend_calls, prev >>

(***************************************************************************)
(* main(), one action per external call or loop iteration.                 *)
(***************************************************************************)

\* Variant of AfterAuth: the except branch does not return.
AfterAuth_NoReturn(ok) == "fetch"

\* Where main() goes after the authentication block (lines 43-57).
AfterAuth(ok) == IF ok THEN "fetch" ELSE "returned"

\* The outcomes of the fetch block and of len(articles) (lines 64-73):
\*   results          HTTP 200, a JSON object with a list under "results"
\*   no_results       HTTP 200, a JSON object without the key "results"
\*   request_error    a requests.exceptions.RequestException: no connection,
\*                    an HTTP error status, a body that requests cannot decode
\*   body_not_object  HTTP 200, a JSON array: .get raises AttributeError
\*   results_null     HTTP 200, {"results": null}: len(articles) raises TypeError
\*   json_value_error response.json() raises a ValueError that is no
\*                    RequestException
FetchOutcomes ==
    { "results", "no_results", "request_error",
      "body_not_object", "results_null", "json_value_error" }

\* The outcomes that "except requests.exceptions.RequestException" does not
\* catch.
Uncaught == { "body_not_object", "results_null", "json_value_error" }

\* Where main() goes after the fetch block and line 73.
AfterFetch(res) ==
    IF res = "request_error" THEN "returned"
    ELSE IF res \in Uncaught THEN "crashed"
    ELSE "dedup"

\* main() is invoked and authenticates with the spreadsheet service.
Authenticate ==
    /\ pc \in Stopped
    /\ runs < MaxRuns
    /\ \E ok \in BOOLEAN :
          /\ pc' = AfterAuth(ok)
          /\ fault' = IF ok THEN "none" ELSE "auth"
    /\ runs' = runs + 1
    /\ prev' = [articles |-> articles, pc |-> pc]
    /\ ledger0' = ledger
    /\ articles' = <<>>
    /\ k' = 0
    /\ existing_links' = {}
    /\ existing_titles' = {}
    /\ rows_to_add' = <<>>
    /\ trace' = <<>>
    /\ backend_calls' = 0
    /\ UNCHANGED << ledger, feed >>

\* requests.get, raise_for_status, response.json().get("results", []) and
\* len(articles); only a RequestException is caught.
FetchNews ==
    /\ pc = "fetch"
    /\ \E res \in FetchOutcomes :
          /\ pc' = AfterFetch(res)
          /\ fault' = IF res = "request_error" THEN "fetch"
                      ELSE IF res \in Uncaught THEN "decode"
                      ELSE fault
          /\ articles' = IF res = "results" THEN feed
                         ELSE IF res = "results_null" THEN None
                         ELSE <<>>
    /\ UNCHANGED << ledger, feed, runs, k, existing_links, existing_titles,
                    rows_to_add, ledger0, trace, backend_calls, prev >>

\* The two col_values reads (lines 74-75); a failing read is not caught.
ReadLedger ==
    /\ pc = "dedup"
    /\ \E ok \in BOOLEAN :
          IF ok
          THEN /\ existing_links' = ToSet(col_values(ledger, LinkCol))
               /\ existing_titles' = ToSet(col_values(ledger, TitleCol))
               /\ pc' = "loop"
               /\ fault' = fault
          ELSE /\ pc' = "crashed"
               /\ fault' = "read"
               /\ UNCHANGED << existing_links, existing_titles >>
    /\ rows_to_add' = IF pc' = "loop" THEN <<>> ELSE rows_to_add
    /\ UNCHANGED << ledger, feed, runs, articles, k, ledger0, trace,
                    backend_calls, prev >>

\* The exception, if any, that one iteration raises; none is caught:
\*   item      article.get on an item that is no object (line 81)
\*   link      "source_link not in existing_links" on a list (line 84)
\*   urlparse  urlparse(source_link) on an accepted article (line 95)
\*   title     existing_titles.add(title) on a list (line 101)
IterationFault(article, links, titles) ==
    IF article.kind # "object" THEN "item"
    ELSE IF Truthy(article.link) /\ ~Hashable(article.link) THEN "link"
    ELSE IF Verdict(article, links, titles) # "accepted" THEN "none"
    ELSE IF UrlRejected(article.link) THEN "urlparse"
    ELSE IF ~Hashable(article.title) THEN "title"
    ELSE "none"

\* One iteration of "for article in reversed(articles)" (lines 80-101).
ProcessArticle ==
    /\ pc = "loop"
    /\ k < Len(articles)
    /\ LET item == reversed(Enumerate(articles))[k + 1]
           article == item.art
           raised == IterationFault(article, existing_links, existing_titles)
       IN IF raised \in { "item", "link" }
          THEN /\ pc' = "crashed"
               /\ fault' = raised
               /\ UNCHANGED << k, rows_to_add, existing_links, existing_titles,
                               trace, backend_calls >>
          ELSE
            LET verdict == Verdict(article, existing_links, existing_titles)
            IN \E api_key \in { None, ApiKey }, reply \in Replies :
              LET ai_summary == get_ai_summary(article.title, article.description,
                                               api_key, reply)
                  called == CallsBackend(article.description, api_key)
              IN IF verdict # "accepted"
                 THEN /\ trace' = Append(trace,
                            [src |-> item.src, art |-> article, verdict |-> verdict,
                             summarized |-> FALSE, backend |-> "not_called"])
                      /\ k' = k + 1
                      /\ UNCHANGED << pc, fault, rows_to_add, existing_links,
                                      existing_titles, backend_calls >>
                 ELSE /\ backend_calls' = backend_calls + (IF called THEN 1 ELSE 0)
                      /\ IF raised = "urlparse"
                         THEN /\ pc' = "crashed"
                              /\ fault' = raised
                              /\ UNCHANGED << k, rows_to_add, existing_links,
                                              existing_titles, trace >>
                         ELSE /\ rows_to_add' =
                                    Append(rows_to_add, BuildRow(article, ai_summary))
                              /\ existing_links' = add_link(existing_links, article.link)
                              /\ trace' = Append(trace,
                                    [src |-> item.src, art |-> article,
                                     verdict |-> verdict, summarized |-> TRUE,
                                     backend |-> IF ~called THEN "not_called"
                                                 ELSE IF reply = BackendError THEN "error"
                                                 ELSE "ok"])
                              /\ IF raised = "title"
                                 THEN /\ pc' = "crashed"
                                      /\ fault' = raised
                                      /\ UNCHANGED << k, existing_titles >>
                                 ELSE /\ existing_titles' =
                                            add_title(existing_titles, article.title)
                                      /\ k' = k + 1
                                      /\ UNCHANGED << pc, fault >>
    /\ UNCHANGED << ledger, feed, runs, articles, ledger0, prev >>

\* After the loop (lines 103-107): one batched append, not caught if it fails.
AppendRows ==
    /\ pc = "loop"
    /\ k = Len(articles)
    /\ IF rows_to_add # <<>>
       THEN \E ok \in BOOLEAN :
               IF ok
               THEN /\ ledger' = append_rows(ledger, rows_to_add)
                    /\ pc' = "done"
                    /\ fault' = fault
               ELSE /\ pc' = "crashed"
                    /\ fault' = "append"
                    /\ ledger' = ledger
       ELSE /\ pc' = "done"
            /\ UNCHANGED << ledger, fault >>
    /\ UNCHANGED << feed, runs, articles, k, existing_links, existing_titles,
                    rows_to_add, ledger0, trace, backend_calls, prev >>

Next ==
    \/ Publish
    \/ Authenticate
    \/ FetchNews
    \/ ReadLedger
    \/ ProcessArticle
    \/ AppendRows

Spec == Init /\ [][Next]_vars

(***************************************************************************)
(* Properties.                                                             *)
(***************************************************************************)

\* The entries of the trace of the articles that were accepted, in order.
AcceptedEntries == SelectSeq(trace, LAMBDA e : e.verdict = "accepted")

\* The link and title columns of the Ledger when the run started.
LinksAtStart == { ledger0[j][LinkCol] : j \in 1..Len(ledger0) }
TitlesAtStart == { ledger0[j][TitleCol] : j \in 1..Len(ledger0) }

\* A title that is missing or empty.
Blank(t) == t = None \/ t = EmptyStr

\* C1: no row accepted by a run has a link that was in the Ledger's link
\* column at run start or that another row accepted in the same run has, and
\* the Ledger, which starts with pairwise distinct links, never holds two
\* rows with the same link.
C1_NoDuplicateLinks ==
    /\ \A j \in 1..Len(rows_to_add) : rows_to_add[j][LinkCol] \notin LinksAtStart
    /\ \A i, j \in 1..Len(rows_to_add) :
          i # j => rows_to_add[i][LinkCol] # rows_to_add[j][LinkCol]
    /\ \A p, q \in 1..Len(ledger) : p # q => ledger[p][LinkCol] # ledger[q][LinkCol]

\* C1 witness: a second run has appended a row after rejecting an article
\* whose link an earlier run had put into the Ledger.
C1_Witness ==
    /\ pc = "done" /\ runs = 2
    /\ Len(ledger) > Len(ledger0)
    /\ \E j \in 1..Len(trace) :
          /\ trace[j].verdict = "dup_link"
          /\ trace[j].art.link = L1

\* C2 (as claimed): any two distinct articles accepted in one run have
\* titles with a similarity of at most 50, and so has every accepted article
\* with every title that was in the Ledger's title column at run start.
C2_TitlesDissimilar ==
    /\ \A i, j \in 1..Len(AcceptedEntries) :
          i # j => token_sort_ratio(AcceptedEntries[i].art.title,
                                    AcceptedEntries[j].art.title) <= 50
    /\ \A i \in 1..Len(AcceptedEntries) : \A t \in TitlesAtStart :
          token_sort_ratio(AcceptedEntries[i].art.title, t) <= 50

\* C3: the rows built are the accepted articles in reversed source order
\* (of two accepted articles the one later in the fetched list comes first),
\* and the batch is appended to the Ledger in that order.
C3_OrderPreserved ==
    /\ \A j \in 1..Len(trace) : trace[j].art = articles[trace[j].src]
    /\ \A i, j \in 1..Len(trace) : i < j => trace[i].src > trace[j].src
    /\ Len(rows_to_add) = Len(AcceptedEntries)
    /\ \A j \in 1..Len(rows_to_add) :
          /\ rows_to_add[j][LinkCol] = AcceptedEntries[j].art.link
          /\ rows_to_add[j][TitleCol] = AcceptedEntries[j].art.title
    /\ (pc = "loop" /\ k = Len(articles)) \/ pc = "done" =>
          \A p, q \in 1..Len(articles) :
             (/\ p < q
              /\ \E i \in 1..Len(AcceptedEntries) : AcceptedEntries[i].src = p
              /\ \E i \in 1..Len(AcceptedEntries) : AcceptedEntries[i].src = q)
             => \E i, j \in 1..Len(rows_to_add) :
                   /\ i < j
                   /\ rows_to_add[i][LinkCol] = articles[q].link
                   /\ rows_to_add[j][LinkCol] = articles[p].link
    /\ pc = "done" =>
          /\ Len(ledger) = Len(ledger0) + Len(rows_to_add)
          /\ \A j \in 1..Len(rows_to_add) :
                ledger[Len(ledger0) + j][LinkCol] = rows_to_add[j][LinkCol]

\* C3 witness: a run has appended two rows.
C3_Witness ==
    /\ pc = "done"
    /\ Len(rows_to_add) = 2
    /\ Len(ledger) = Len(ledger0) + 2

\* C4 (as claimed): a run that ends normally after a run that ended
\* normally, with the same fetched list, accepts nothing and leaves the
\* Ledger as it found it.
C4_Idempotent ==
    (pc = "done" /\ prev.pc = "done" /\ prev.articles = articles)
        => (rows_to_add = <<>> /\ ledger = ledger0)

\* C5: once the authentication or the fetch has failed, the run has
\* returned: no article was processed, the summarizer was not called and the
\* Ledger is as it was at run start.
C5_FatalErrorsReturn ==
    fault \in { "auth", "fetch" } =>
        /\ pc = "returned"
        /\ trace = <<>>
        /\ backend_calls = 0
        /\ rows_to_add = <<>>
        /\ ledger = ledger0

\* C5 witness: a run returned after a failed fetch although the feed held
\* articles, after an earlier run had returned at the authentication.
C5_Witness ==
    /\ pc = "returned" /\ fault = "fetch"
    /\ feed # <<>>
    /\ prev.pc = "returned"

\* C6 (as claimed): no failure of an external call leaves main() as an
\* uncaught exception.
C6_NothingPropagates == pc # "crashed"

\* C7 (as claimed; a run in which the Ledger refused the append is left
\* aside): when a run has ended, every article that passed the duplicate
\* filter and whose summarization backend call raised has exactly one row
\* among those the run appended, with the summary "AI summary failed.".
C7_FailedSummaryStillAppended ==
    (pc \in { "done", "crashed", "returned" } /\ fault # "append") =>
        \A j \in 1..Len(AcceptedEntries) :
            AcceptedEntries[j].backend = "error" =>
                Cardinality({ i \in (Len(ledger0) + 1)..Len(ledger) :
                                /\ ledger[i][LinkCol] = AcceptedEntries[j].art.link
                                /\ ledger[i][SummaryCol] = <<31>> }) = 1

\* C8: the iteration for an article whose link is missing or empty
\* completes, builds no row, does not call the summarizer and leaves both
\* known sets alone.
C8_MissingLinkRejected ==
    [][ (/\ pc = "loop"
         /\ k < Len(articles)
         /\ articles[Len(articles) - k].kind = "object"
         /\ articles[Len(articles) - k].link \in { None, EmptyStr })
        => (/\ pc' = "loop"
            /\ k' = k + 1
            /\ rows_to_add' = rows_to_add
            /\ existing_links' = existing_links
            /\ existing_titles' = existing_titles
            /\ backend_calls' = backend_calls
            /\ Len(trace') = Len(trace) + 1
            /\ trace'[Len(trace')].verdict # "accepted"
            /\ ~trace'[Len(trace')].summarized
            /\ trace'[Len(trace')].backend = "not_called") ]_vars

\* C8 witness: a run has processed an article without link and one with an
\* empty link, each with a title no known title resembles.
C8_Witness ==
    /\ pc = "done"
    /\ TitlesAtStart = {}
    /\ \E i, j \in 1..Len(trace) :
          /\ trace[i].art.link = None
          /\ trace[j].art.link = EmptyStr
    /\ rows_to_add = <<>>

\* Two entries of the trace for articles with one non-empty link and
\* different titles, p processed before q.
SameLinkPair(p, q) ==
    /\ p < q
    /\ trace[p].art.link = trace[q].art.link
    /\ trace[p].art.link \notin { None, EmptyStr }
    /\ trace[p].art.title # trace[q].art.title

\* C9 (as claimed): of two articles of a batch with the same link and
\* different titles, the one processed second is rejected on its link.
C9_SecondRejectedOnLink ==
    \A p, q \in 1..Len(trace) : SameLinkPair(p, q) => trace[q].verdict = "dup_link"

\* C9 (amended): the one processed second is rejected on its link, without
\* any title comparison, if the first was accepted or was itself rejected on
\* its link.
C9_SecondRejectedOnLinkIfFirstKnown ==
    \A p, q \in 1..Len(trace) :
        (SameLinkPair(p, q) /\ trace[p].verdict \in { "accepted", "dup_link" })
            => trace[q].verdict = "dup_link"

\* C9 witness: the first of such a pair was accepted, and the second has a
\* title that no known title resembles.
C9_Witness ==
    \E p, q \in 1..Len(trace) :
        /\ SameLinkPair(p, q)
        /\ trace[p].verdict = "accepted"
        /\ trace[q].verdict = "dup_link"
        /\ \A t \in existing_titles : token_sort_ratio(trace[q].art.title, t) <= 50

\* C10 (as claimed): at most one article with a missing or empty title is
\* accepted per run, and none is when the Ledger's title column held an empty
\* title at run start.
C10_BlankTitleNotDuplicated ==
    /\ \A i, j \in 1..Len(AcceptedEntries) :
          (Blank(AcceptedEntries[i].art.title) /\ Blank(AcceptedEntries[j].art.title))
              => i = j
    /\ \A i \in 1..Len(AcceptedEntries) :
          (\E t \in TitlesAtStart : Blank(t)) => ~Blank(AcceptedEntries[i].art.title)

====
